---- MODULE Spec2Model ----
(***************************************************************************)
(* Model of src/term/mod.rs: the definition registry (DefNames), the       *)
(* program container (Book), the DefId transcoding, var_id_to_name and     *)
(* Term::subst.                                                            *)
(***************************************************************************)
EXTENDS Integers, Sequences, FiniteSets, TLC

VARIABLES
  def_names,   \* Book.def_names / a stand-alone DefNames: [id_to_name, name_to_id, id_count]
  defs,        \* Book.defs : DefId -> Definition
  last,        \* the call that produced the current state, with its arguments and result
  log,         \* history: the insert calls so far, in order, each with the handle it returned
  removed,     \* history: the issued handles that have been passed to remove / remove_def
  tc,          \* a DefId crossing to the substrate's numbering and back: [pc, checks, h, enc, dec]
  vn,          \* a run of var_id_to_name: [pc, input, var_id, name]
  sb           \* a call of Term::subst: [pc, term, from, to, out]

vars == <<def_names, defs, last, log, removed, tc, vn, sb>>

(* ------------------------------------------------------------------ *)
(* Bounds and input sets                                              *)
(* ------------------------------------------------------------------ *)
\* number of insert calls explored (id_count is capped far below the width of Val)
MaxIds == 3

DefNameSet == {"main", "f"}
RuleVecs == {<<"r1">>, <<"r1", "r2">>}

\* Option::None for Option<Name> and Option<DefId>
None == "None"
NoId == -1

(* ------------------------------------------------------------------ *)
(* HashMap / BTreeMap                                                  *)
(* ------------------------------------------------------------------ *)
EmptyMap == [k \in {} |-> 0]
MapInsert(m, k, v) == [x \in (DOMAIN m) \cup {k} |-> IF x = k THEN v ELSE m[x]]
MapRemove(m, k) == [x \in (DOMAIN m) \ {k} |-> m[x]]

(* ------------------------------------------------------------------ *)
(* DefNames                                                            *)
(* ------------------------------------------------------------------ *)
DefNamesNew == [id_to_name |-> EmptyMap, name_to_id |-> EmptyMap, id_count |-> 0]

name(dn, def_id) == IF def_id \in DOMAIN dn.id_to_name THEN dn.id_to_name[def_id] ELSE None
def_id(dn, nam) == IF nam \in DOMAIN dn.name_to_id THEN dn.name_to_id[nam] ELSE NoId
contains_name(dn, nam) == nam \in DOMAIN dn.name_to_id
contains_def_id(dn, id) == id \in DOMAIN dn.id_to_name
def_ids(dn) == DOMAIN dn.id_to_name

\* mutant: the allocator hands out the smallest handle not currently registered
insert_recycling(dn, nam) ==
  LET id == CHOOSE i \in 0..dn.id_count :
              i \notin DOMAIN dn.id_to_name /\ \A j \in 0..(i - 1) : j \in DOMAIN dn.id_to_name
  IN [dn |-> [id_to_name |-> MapInsert(dn.id_to_name, id, nam),
              name_to_id |-> MapInsert(dn.name_to_id, nam, id),
              id_count |-> dn.id_count + 1],
      ret |-> id]

\* mutant: a name that is already present keeps its first handle in name_to_id
insert_first_wins(dn, nam) ==
  LET id == dn.id_count
  IN [dn |-> [id_to_name |-> MapInsert(dn.id_to_name, id, nam),
              name_to_id |-> IF nam \in DOMAIN dn.name_to_id THEN dn.name_to_id
                             ELSE MapInsert(dn.name_to_id, nam, id),
              id_count |-> dn.id_count + 1],
      ret |-> id]

\* DefNames::insert: the new state and the returned DefId
insert(dn, nam) ==
  LET id == dn.id_count
  IN [dn |-> [id_to_name |-> MapInsert(dn.id_to_name, id, nam),
              name_to_id |-> MapInsert(dn.name_to_id, nam, id),
              id_count |-> dn.id_count + 1],
      ret |-> id]

\* mutant: the handle is looked up with get instead of remove, so id_to_name keeps it
remove_keeps_id(dn, id) ==
  LET nam == name(dn, id)
  IN [dn |-> [dn EXCEPT !.name_to_id = IF nam # None THEN MapRemove(@, nam) ELSE @],
      ret |-> nam]

\* DefNames::remove: the new state and the returned Option<Name>
remove(dn, id) ==
  LET nam == name(dn, id)
  IN [dn |-> [dn EXCEPT !.id_to_name = MapRemove(@, id),
                        !.name_to_id = IF nam # None THEN MapRemove(@, nam) ELSE @],
      ret |-> nam]

(* ------------------------------------------------------------------ *)
(* Book                                                                *)
(* ------------------------------------------------------------------ *)
NoDef == [def_id |-> NoId, rules |-> <<>>]
Definition(id, rules) == [def_id |-> id, rules |-> rules]

\* Book::insert_def: new registry, new definitions map, returned DefId
insert_def(dn, ds, nam, rules) ==
  LET r == insert(dn, nam)
  IN [dn |-> r.dn, defs |-> MapInsert(ds, r.ret, Definition(r.ret, rules)), ret |-> r.ret]

\* mutant: the definition is dropped but the registry entry is kept
remove_def_unpaired(dn, ds, id) ==
  [dn |-> dn, defs |-> MapRemove(ds, id), ret_nam |-> None, ret_def |-> NoDef]

\* Book::remove_def: new registry, new definitions map, returned Option<(Name, Definition)>
remove_def(dn, ds, id) ==
  LET def == IF id \in DOMAIN ds THEN ds[id] ELSE NoDef
      r == remove(dn, id)
      both == r.ret # None /\ def # NoDef
  IN [dn |-> r.dn, defs |-> MapRemove(ds, id),
      ret_nam |-> IF both THEN r.ret ELSE None,
      ret_def |-> IF both THEN def ELSE NoDef]

(* ------------------------------------------------------------------ *)
(* Term                                                                *)
(* ------------------------------------------------------------------ *)
\* A Term is a record of one shape for every variant: tag is the variant, pat
\* the LetPat variant of a Let, op the Op of an Opx, n1 and n2 the (optional)
\* names, val the u32 of a Num or the DefId of a Ref, kids the boxed subterms.
Node(tag, pat, op, n1, n2, val, kids) ==
  [tag |-> tag, pat |-> pat, op |-> op, n1 |-> n1, n2 |-> n2, val |-> val, kids |-> kids]

Lam(nam, bod) == Node("Lam", "-", "-", nam, None, 0, <<bod>>)
Var(nam) == Node("Var", "-", "-", nam, None, 0, <<>>)
Chn(nam, bod) == Node("Chn", "-", "-", nam, None, 0, <<bod>>)
Lnk(nam) == Node("Lnk", "-", "-", nam, None, 0, <<>>)
LetVar(nam, val, nxt) == Node("Let", "Var", "-", nam, None, 0, <<val, nxt>>)
LetTup(fst, snd, val, nxt) == Node("Let", "Tup", "-", fst, snd, 0, <<val, nxt>>)
App(fun, arg) == Node("App", "-", "-", None, None, 0, <<fun, arg>>)
Tup(fst, snd) == Node("Tup", "-", "-", None, None, 0, <<fst, snd>>)
Dup(fst, snd, val, nxt) == Node("Dup", "-", "-", fst, snd, 0, <<val, nxt>>)
Sup(fst, snd) == Node("Sup", "-", "-", None, None, 0, <<fst, snd>>)
Num(val) == Node("Num", "-", "-", None, None, val, <<>>)
Opx(op, fst, snd) == Node("Opx", "-", op, None, None, 0, <<fst, snd>>)
Match(cond, zero, succ) == Node("Match", "-", "-", None, None, 0, <<cond, zero, succ>>)
Ref(id) == Node("Ref", "-", "-", None, None, id, <<>>)
Era == Node("Era", "-", "-", None, None, 0, <<>>)

RECURSIVE subst(_, _, _)

\* the arms that substitute into every boxed subterm
subst_all(t, from, to) ==
  [t EXCEPT !.kids = [i \in 1..Len(t.kids) |-> subst(t.kids[i], from, to)]]

\* mutant: a lambda never shadows
subst_Lam_no_shadow(t, from, to) ==
  [t EXCEPT !.kids = <<subst(t.kids[1], from, to)>>]

\* Term::Lam arms
subst_Lam(t, from, to) ==
  IF t.n1 # None /\ t.n1 = from
  THEN t
  ELSE [t EXCEPT !.kids = <<subst(t.kids[1], from, to)>>]

\* Term::Var arms
subst_Var(t, from, to) == IF t.n1 = from THEN to ELSE t

\* mutant: a scopeless binder shadows like a lambda
subst_Chn_shadow(t, from, to) ==
  IF t.n1 = from THEN t ELSE [t EXCEPT !.kids = <<subst(t.kids[1], from, to)>>]

\* Term::Chn arm
subst_Chn(t, from, to) == [t EXCEPT !.kids = <<subst(t.kids[1], from, to)>>]

\* Term::Lnk arm
subst_Lnk(t, from, to) == t

\* Term::Let arm with LetPat::Var
subst_LetVar(t, from, to) ==
  [t EXCEPT !.kids = <<subst(t.kids[1], from, to),
                       IF t.n1 # from THEN subst(t.kids[2], from, to) ELSE t.kids[2]>>]

\* fst.as_ref().map_or(true, |fst| fst != from) && snd.as_ref().map_or(true, |snd| snd != from)
not_bound(fst, snd, from) ==
  /\ (fst = None \/ fst # from)
  /\ (snd = None \/ snd # from)

\* Term::Let arm with LetPat::Tup
subst_LetTup(t, from, to) ==
  [t EXCEPT !.kids = <<subst(t.kids[1], from, to),
                       IF not_bound(t.n1, t.n2, from) THEN subst(t.kids[2], from, to)
                       ELSE t.kids[2]>>]

\* Term::Dup arm
subst_Dup(t, from, to) ==
  [t EXCEPT !.kids = <<subst(t.kids[1], from, to),
                       IF not_bound(t.n1, t.n2, from) THEN subst(t.kids[2], from, to)
                       ELSE t.kids[2]>>]

\* Term::subst: the term that *self holds when the call returns
subst(t, from, to) ==
  CASE t.tag = "Lam" -> subst_Lam(t, from, to)
    [] t.tag = "Var" -> subst_Var(t, from, to)
    [] t.tag = "Chn" -> subst_Chn(t, from, to)
    [] t.tag = "Lnk" -> subst_Lnk(t, from, to)
    [] t.tag = "Let" /\ t.pat = "Var" -> subst_LetVar(t, from, to)
    [] t.tag = "Let" /\ t.pat = "Tup" -> subst_LetTup(t, from, to)
    [] t.tag = "Match" -> subst_all(t, from, to)
    [] t.tag = "Ref" -> t
    [] t.tag = "App" -> subst_all(t, from, to)
    [] t.tag = "Dup" -> subst_Dup(t, from, to)
    [] t.tag = "Sup" -> subst_all(t, from, to)
    [] t.tag = "Era" -> t
    [] t.tag = "Num" -> t
    [] t.tag = "Opx" -> subst_all(t, from, to)
    [] t.tag = "Tup" -> subst_all(t, from, to)

(* The terms, names and replacements that subst is applied to *)
MaxDepth == 2

VarNames == {"x", "y"}
OptNames == VarNames \cup {None}
PatPairs == {<<None, None>>, <<"x", None>>, <<"y", "x">>}
Sibling == Var("x")
Leaves == {Var("x"), Var("y"), Lnk("x"), Num(7), Ref(0), Era}
ToTerms == {Num(5), App(Var("x"), Var("y"))}

\* every variant built around t, the other boxed subterms being Sibling
Wrap(t) ==
  {Lam(n, t) : n \in OptNames}
  \cup {Chn(n, t) : n \in VarNames}
  \cup {LetVar(n, t, Sibling) : n \in VarNames}
  \cup {LetVar(n, Sibling, t) : n \in VarNames}
  \cup {LetTup(p[1], p[2], t, Sibling) : p \in PatPairs}
  \cup {LetTup(p[1], p[2], Sibling, t) : p \in PatPairs}
  \cup {Dup(p[1], p[2], t, Sibling) : p \in PatPairs}
  \cup {Dup(p[1], p[2], Sibling, t) : p \in PatPairs}
  \cup {App(t, Sibling), App(Sibling, t), Tup(t, Sibling)}
  \cup {Sup(Sibling, t), Opx("ADD", t, Sibling)}
  \cup {Match(t, Sibling, Sibling), Match(Sibling, t, Sibling), Match(Sibling, Sibling, t)}

(* ------------------------------------------------------------------ *)
(* Initial values                                                      *)
(* ------------------------------------------------------------------ *)
Call(op, nam, id, ret_id, ret_nam, ret_def) ==
  [op |-> op, nam |-> nam, id |-> id, ret_id |-> ret_id, ret_nam |-> ret_nam, ret_def |-> ret_def]

\* the handles returned by the insert calls so far
Issued == {log[k].id : k \in 1..Len(log)}

TcIdle == [pc |-> "idle", checks |-> FALSE, h |-> 0, enc |-> 0, dec |-> 0]

VnIdle == [pc |-> "idle", input |-> 0, var_id |-> 0, name |-> <<>>]

SbIdle == [pc |-> "idle", depth |-> 0, term |-> Era, from |-> None, to |-> Era, out |-> Era]

InitBook ==
  /\ def_names = DefNamesNew
  /\ defs = EmptyMap
  /\ last = Call("new", None, NoId, NoId, None, NoDef)
  /\ log = <<>>
  /\ removed = {}

(* ------------------------------------------------------------------ *)
(* DefId transcoding                                                   *)
(* ------------------------------------------------------------------ *)
\* Val (hvmc::run::Val) is an unsigned machine word; the model uses a word of ValBits bits
ValBits == 6
RECURSIVE Pow(_, _)
Pow(b, e) == IF e = 0 THEN 1 ELSE b * Pow(b, e - 1)
ValMax == Pow(2, ValBits) - 1
Vals == 0..ValMax

\* the result of an arithmetic expression: a value, or a panic
Ok(v) == [ok |-> TRUE, val |-> v]
Panic == [ok |-> FALSE, val |-> 0]

\* a + b and a - b on Val: with overflow checks (the dev and test profiles) an
\* overflow panics, without them (the release profile) the result wraps
AddVal(a, b, checks) ==
  IF a + b > ValMax THEN (IF checks THEN Panic ELSE Ok((a + b) % (ValMax + 1))) ELSE Ok(a + b)
SubVal(a, b, checks) ==
  IF a - b < 0 THEN (IF checks THEN Panic ELSE Ok((a - b) % (ValMax + 1))) ELSE Ok(a - b)

to_internal(h, checks) == AddVal(h, 1, checks)
from_internal(v, checks) == SubVal(v, 1, checks)

InitTranscode ==
  /\ InitBook
  /\ vn = VnIdle
  /\ sb = SbIdle
  /\ \E h \in Vals, checks \in BOOLEAN :
       tc = [pc |-> "start", checks |-> checks, h |-> h, enc |-> 0, dec |-> 0]

ToInternal ==
  /\ tc.pc = "start"
  /\ LET r == to_internal(tc.h, tc.checks)
     IN tc' = IF r.ok THEN [tc EXCEPT !.pc = "encoded", !.enc = r.val]
              ELSE [tc EXCEPT !.pc = "panicked"]
  /\ UNCHANGED <<def_names, defs, last, log, removed, vn, sb>>

FromInternal ==
  /\ tc.pc = "encoded"
  /\ LET r == from_internal(tc.enc, tc.checks)
     IN tc' = IF r.ok THEN [tc EXCEPT !.pc = "decoded", !.dec = r.val]
              ELSE [tc EXCEPT !.pc = "panicked"]
  /\ UNCHANGED <<def_names, defs, last, log, removed, vn, sb>>

NextTranscode == ToInternal \/ FromInternal

SpecTranscode == InitTranscode /\ [][NextTranscode]_vars

\* C6: for every representable DefId h, the maximum included,
\* from_internal(to_internal(h)) is evaluated and equals h.
C6_RoundTrip ==
  /\ tc.pc # "panicked"
  /\ tc.pc = "decoded" => tc.dec = tc.h

(* ------------------------------------------------------------------ *)
(* var_id_to_name                                                      *)
(* ------------------------------------------------------------------ *)
MaxVarId == 700

Alphabet == <<"a", "b", "c", "d", "e", "f", "g", "h", "i", "j", "k", "l", "m",
              "n", "o", "p", "q", "r", "s", "t", "u", "v", "w", "x", "y", "z">>
\* (d as u8 + b'a') as char
Chr(d) == Alphabet[d + 1]

\* mutant: the new character goes to the front of the name
push_front(str, c) == <<c>> \o str

\* String::push
push(str, c) == Append(str, c)

InitVarName ==
  /\ InitBook
  /\ tc = TcIdle
  /\ sb = SbIdle
  /\ \E n \in 0..MaxVarId : vn = [pc |-> "loop", input |-> n, var_id |-> n, name |-> <<>>]

\* one iteration of the loop of var_id_to_name
LoopIter ==
  /\ vn.pc = "loop"
  /\ LET c == Chr(vn.var_id % 26)
         rest == vn.var_id \div 26
     IN vn' = [vn EXCEPT !.name = push(vn.name, c),
                         !.var_id = rest,
                         !.pc = IF rest = 0 THEN "done" ELSE "loop"]
  /\ UNCHANGED <<def_names, defs, last, log, removed, tc, sb>>

NextVarName == LoopIter

SpecVarName == InitVarName /\ [][NextVarName]_vars

\* the i-th base-26 digit of n, counted from the least significant one
Digit(n, i) == (n \div Pow(26, i - 1)) % 26
\* the number of base-26 digits of n
NumDigits(n) == CHOOSE k \in 1..8 : (n = 0 /\ k = 1) \/ (Pow(26, k - 1) <= n /\ n < Pow(26, k))
LsdFirst(n, str) ==
  /\ Len(str) = NumDigits(n)
  /\ \A i \in 1..Len(str) : str[i] = Chr(Digit(n, i))

\* C9 as stated: index 0 gives "a", index 26 gives "ba", and the name is the
\* base-26 digits of the index over a-z, least significant digit first.
C9_AsStated ==
  vn.pc = "done" =>
    /\ vn.input = 0 => vn.name = <<"a">>
    /\ vn.input = 26 => vn.name = <<"b", "a">>
    /\ LsdFirst(vn.input, vn.name)

\* C9 amended: index 0 gives "a", index 26 gives "ab", and the name is the
\* base-26 digits of the index over a-z, least significant digit first.
C9_Base26 ==
  vn.pc = "done" =>
    /\ vn.input = 0 => vn.name = <<"a">>
    /\ vn.input = 26 => vn.name = <<"a", "b">>
    /\ LsdFirst(vn.input, vn.name)

C9_Witness ==
  /\ vn.pc = "done"
  /\ vn.input = 26
  /\ vn.name = <<"a", "b">>

(* ------------------------------------------------------------------ *)
(* State machine of the registry used on its own                       *)
(* ------------------------------------------------------------------ *)
Init ==
  /\ InitBook
  /\ tc = TcIdle
  /\ vn = VnIdle
  /\ sb = SbIdle

Insert(nam) ==
  /\ def_names.id_count < MaxIds
  /\ LET r == insert(def_names, nam)
     IN /\ def_names' = r.dn
        /\ last' = Call("insert", nam, NoId, r.ret, None, NoDef)
        /\ log' = Append(log, [nam |-> nam, id |-> r.ret])
  /\ UNCHANGED <<defs, removed, tc, vn, sb>>

Remove(id) ==
  /\ LET r == remove(def_names, id)
     IN /\ def_names' = r.dn
        /\ last' = Call("remove", None, id, NoId, r.ret, NoDef)
  /\ removed' = removed \cup ({id} \cap Issued)
  /\ UNCHANGED <<defs, log, tc, vn, sb>>

Next ==
  \/ \E nam \in DefNameSet : Insert(nam)
  \/ \E id \in 0..MaxIds : Remove(id)

Spec == Init /\ [][Next]_vars

(* ------------------------------------------------------------------ *)
(* State machine of the Book                                           *)
(* ------------------------------------------------------------------ *)
InsertDef(nam, rules) ==
  /\ def_names.id_count < MaxIds
  /\ LET r == insert_def(def_names, defs, nam, rules)
     IN /\ def_names' = r.dn
        /\ defs' = r.defs
        /\ last' = Call("insert_def", nam, NoId, r.ret, None, NoDef)
        /\ log' = Append(log, [nam |-> nam, id |-> r.ret])
  /\ UNCHANGED <<removed, tc, vn, sb>>

RemoveDef(id) ==
  /\ LET r == remove_def(def_names, defs, id)
     IN /\ def_names' = r.dn
        /\ defs' = r.defs
        /\ last' = Call("remove_def", None, id, NoId, r.ret_nam, r.ret_def)
  /\ removed' = removed \cup ({id} \cap Issued)
  /\ UNCHANGED <<log, tc, vn, sb>>

NextBook ==
  \/ \E nam \in DefNameSet, rules \in RuleVecs : InsertDef(nam, rules)
  \/ \E id \in 0..MaxIds : RemoveDef(id)

SpecBook == Init /\ [][NextBook]_vars

(* ------------------------------------------------------------------ *)
(* State machine of a call of Term::subst                              *)
(* ------------------------------------------------------------------ *)
InitSubst ==
  /\ InitBook
  /\ tc = TcIdle
  /\ vn = VnIdle
  /\ \E t \in Leaves, from \in VarNames, to \in ToTerms :
       sb = [pc |-> "build", depth |-> 0, term |-> t, from |-> from, to |-> to, out |-> t]

\* the caller builds the term: the term so far becomes a boxed subterm of t
Build ==
  /\ sb.pc = "build"
  /\ sb.depth < MaxDepth
  /\ \E t \in Wrap(sb.term) : sb' = [sb EXCEPT !.depth = @ + 1, !.term = t, !.out = t]
  /\ UNCHANGED <<def_names, defs, last, log, removed, tc, vn>>

\* term.subst(&from, &to)
SubstCall ==
  /\ sb.pc = "build"
  /\ sb' = [sb EXCEPT !.pc = "done", !.out = subst(sb.term, sb.from, sb.to)]
  /\ UNCHANGED <<def_names, defs, last, log, removed, tc, vn>>

NextSubst ==
  \/ Build
  \/ SubstCall

SpecSubst == InitSubst /\ [][NextSubst]_vars

\* the paths (child indices from the root) of the Variables named x in t that
\* are not under a binder of x: a Lambda binds in its body, a Let and a Dup
\* bind in their continuation, a scopeless binder binds nothing
Under(i, paths) == {<<i>> \o p : p \in paths}
RECURSIVE FreePaths(_, _)
FreePaths(t, x) ==
  CASE t.tag = "Var" -> IF t.n1 = x THEN {<<>>} ELSE {}
    [] t.tag = "Lam" -> IF t.n1 = x THEN {} ELSE Under(1, FreePaths(t.kids[1], x))
    [] t.tag \in {"Let", "Dup"} ->
         Under(1, FreePaths(t.kids[1], x))
         \cup (IF x \in {t.n1, t.n2} THEN {} ELSE Under(2, FreePaths(t.kids[2], x)))
    [] OTHER -> UNION {Under(i, FreePaths(t.kids[i], x)) : i \in 1..Len(t.kids)}

\* t with the subterm at every path of paths replaced by to
RECURSIVE Plug(_, _, _)
Plug(t, paths, to) ==
  IF <<>> \in paths THEN to
  ELSE [t EXCEPT !.kids =
          [i \in 1..Len(t.kids) |->
             Plug(t.kids[i], {Tail(p) : p \in {q \in paths : Head(q) = i}}, to)]]

\* the subterm of t at path p
RECURSIVE At(_, _)
At(t, p) == IF p = <<>> THEN t ELSE At(t.kids[Head(p)], Tail(p))

\* the paths of the scopeless references of t
RECURSIVE LnkPaths(_)
LnkPaths(t) ==
  IF t.tag = "Lnk" THEN {<<>>}
  ELSE UNION {Under(i, LnkPaths(t.kids[i])) : i \in 1..Len(t.kids)}

\* C7: subst replaces exactly the Variables named from that are not under a
\* binder of from by to: a Lambda binding from is unchanged, a Let or Dup has
\* its value substituted and its continuation only if from is not bound by it.
C7_LexicalShadowing ==
  sb.pc = "done" =>
    /\ sb.out = Plug(sb.term, FreePaths(sb.term, sb.from), sb.to)
    /\ (sb.term.tag = "Lam" /\ sb.term.n1 = sb.from) => sb.out = sb.term
    /\ sb.term.tag \in {"Let", "Dup"} =>
         /\ sb.out.kids[1] = Plug(sb.term.kids[1], FreePaths(sb.term.kids[1], sb.from), sb.to)
         /\ sb.from \in {sb.term.n1, sb.term.n2} => sb.out.kids[2] = sb.term.kids[2]
         /\ sb.from \notin {sb.term.n1, sb.term.n2} =>
              sb.out.kids[2] = Plug(sb.term.kids[2], FreePaths(sb.term.kids[2], sb.from), sb.to)
    /\ (sb.term = Lam("x", Var("x")) /\ sb.from = "x" /\ sb.to = Num(5)) => sb.out = Lam("x", Var("x"))
    /\ (sb.term = App(Var("x"), Var("x")) /\ sb.from = "x" /\ sb.to = Num(5))
         => sb.out = App(Num(5), Num(5))

C7_Witness ==
  /\ sb.pc = "done"
  /\ sb.term.tag = "Dup"
  /\ sb.term.n2 = sb.from
  /\ sb.term.kids[1] = Var(sb.from)
  /\ sb.term.kids[2] = Var(sb.from)
  /\ sb.out.kids[1] = sb.to
  /\ sb.out.kids[2] = Var(sb.from)

\* C8: a scopeless binder always has its body substituted, also when its name
\* is from, and a scopeless reference is never replaced, also when its name
\* is from.
C8_Scopeless ==
  sb.pc = "done" =>
    /\ sb.term.tag = "Chn" =>
         sb.out = Chn(sb.term.n1, Plug(sb.term.kids[1], FreePaths(sb.term.kids[1], sb.from), sb.to))
    /\ \A p \in LnkPaths(sb.term) : At(sb.out, p) = At(sb.term, p)

C8_Witness ==
  /\ sb.pc = "done"
  /\ sb.term.tag = "Chn"
  /\ sb.term.n1 = sb.from
  /\ sb.term.kids[1] = App(Lnk(sb.from), Var(sb.from))
  /\ sb.out = Chn(sb.from, App(Lnk(sb.from), sb.to))

(* ------------------------------------------------------------------ *)
(* Properties of the registry and the Book                             *)
(* ------------------------------------------------------------------ *)
Registered == def_ids(def_names)

\* C1: every DefId present in id_to_name has a name that maps back to that
\* same DefId in name_to_id, in every state reachable by insert and remove.
C1_Bijection ==
  \A d \in Registered : def_id(def_names, name(def_names, d)) = d

\* C2: the k-th insert call (k = 0, 1, ...) returns DefId k whatever removes
\* are interleaved, so every insert returns a handle greater than all handles
\* returned before and no handle is handed out twice.
C2_Freshness ==
  /\ \A k \in 1..Len(log) : log[k].id = k - 1
  /\ \A i, j \in 1..Len(log) : i < j => log[i].id < log[j].id
  /\ last.op = "insert" => last.ret_id = Len(log) - 1

C2_Witness ==
  /\ last.op = "insert"
  /\ Len(log) = MaxIds
  /\ removed # {}

\* C3: two inserts of one name return distinct handles; right after the
\* second insert def_id(n) is the newer handle; name(id1) is still n for as
\* long as id1 has not been passed to remove.
C3_Shadowing ==
  \A i, j \in 1..Len(log) :
    (i < j /\ log[i].nam = log[j].nam) =>
      /\ log[i].id # log[j].id
      /\ (j = Len(log) /\ last.op = "insert") => def_id(def_names, log[j].nam) = log[j].id
      /\ log[i].id \notin removed => name(def_names, log[i].id) = log[i].nam

C3_Witness ==
  /\ last.op = "insert"
  /\ \E i \in 1..(Len(log) - 1) :
       /\ log[i].nam = last.nam
       /\ log[i].id \notin removed
       /\ removed # {}
       /\ def_id(def_names, last.nam) = last.ret_id

\* C4: remove(id) on a registered handle leaves name(id) absent and
\* contains_def_id(id) false and returns the name; remove(id) on a handle that
\* is not registered returns None and changes neither map nor the counter.
C4_Removal ==
  [][last'.op = "remove" =>
       LET id == last'.id IN
         /\ name(def_names', id) = None
         /\ ~contains_def_id(def_names', id)
         /\ contains_def_id(def_names, id) => last'.ret_nam = name(def_names, id)
         /\ ~contains_def_id(def_names, id) => (last'.ret_nam = None /\ def_names' = def_names)]_vars

C4_Witness ==
  /\ last.op = "remove"
  /\ last.ret_nam # None
  /\ Registered # {}

\* C5: the key set of defs equals the set of DefIds known to the registry;
\* right after insert_def returns d both defs[d] and name(d) are present and
\* defs[d].def_id = d; right after remove_def(d) both are absent.
C5_Pairing ==
  /\ DOMAIN defs = Registered
  /\ last.op = "insert_def" =>
       /\ last.ret_id \in DOMAIN defs
       /\ name(def_names, last.ret_id) = last.nam
       /\ defs[last.ret_id].def_id = last.ret_id
  /\ last.op = "remove_def" =>
       /\ last.id \notin DOMAIN defs
       /\ name(def_names, last.id) = None

C5_Witness ==
  /\ last.op = "remove_def"
  /\ last.ret_nam # None
  /\ last.ret_def # NoDef
  /\ Cardinality(DOMAIN defs) >= 1

\* C10: remove(id) and remove_def(id) affect only the handle id: for every
\* other registered handle d, name(d) is unchanged, and def_id(name(d)) = d
\* is preserved.
C10_RemoveFrame ==
  [][last'.op \in {"remove", "remove_def"} =>
       \A d \in Registered \ {last'.id} :
         /\ name(def_names', d) = name(def_names, d)
         /\ def_id(def_names, name(def_names, d)) = d
              => def_id(def_names', name(def_names', d)) = d]_vars

====
